---- MODULE Spec2Model ----
(***************************************************************************)
(* Model of the command retry-executor src/redo.py: main() parses the      *)
(* policy, execute_command() drives the attempt loop (subprocess.run, the  *)
(* success condition, the backoff sleep), and main() maps the result to    *)
(* the process exit status.                                                *)
(*                                                                         *)
(* Durations are integers (ticks); text is a sequence of one-character     *)
(* strings, so that containment, indexing and emptiness are computed.      *)
(***************************************************************************)
EXTENDS Integers, Sequences, FiniteSets, TLC

(* ---------------------------------------------------------------------- *)
(* Bounds of the explored inputs                                           *)
(* ---------------------------------------------------------------------- *)
MaxAttempts == 3

AttemptsIn == 0..MaxAttempts
DelaysIn == {1, 3}
(* execute_command never reads backoff (line 53 has the constant 2), so one
   value that differs from 2 covers every run *)
BackoffsIn == {3}
MaxDelaysIn == {2, 5}
JittersIn == {0, 2}
TimeoutsIn == {10}

(* -d takes any float: a negative delay is accepted too *)
SignedDelaysIn == DelaysIn \cup {-1}

(* argv after REMAINDER: empty, or a program name *)
CommandsIn == {<<>>, <<"cmd">>}

(* what one child process can produce *)
ReturnCodes == {0, 1}
Stdouts == {<<>>, <<"h", "i">>, <<"o", "h", "i">>}
Stderrs == {<<>>, <<"e">>}

(* ---------------------------------------------------------------------- *)
(* Success conditions: Python expressions handed to eval()                 *)
(* ---------------------------------------------------------------------- *)
DefaultCondition == "result.returncode == 0"
ContainsCondition == "'hi' in stdout"
MalformedCondition == "stdout =="
IndexCondition == "stdout[0] == 'h'"
TextCondition == "stdout"

(* eval supplies the builtins: this one raises SystemExit(0) *)
ExitCondition == "exit(0)"

ConditionsIn ==
  {DefaultCondition, ContainsCondition, MalformedCondition, IndexCondition,
   TextCondition}

(* Python values the conditions can produce *)
PyBool(b) == [t |-> "bool", b |-> b, s |-> <<>>]
PyStr(s) == [t |-> "str", b |-> FALSE, s |-> s]
PyUnbound == [t |-> "unbound", b |-> FALSE, s |-> <<>>]

(* truth value of a Python object, as `if success:` takes it *)
Truthy(v) == IF v.t = "bool" THEN v.b ELSE IF v.t = "str" THEN Len(v.s) > 0 ELSE FALSE

(* `in` taken for a prefix test *)
Contains_PrefixOnly(needle, hay) ==
  Len(hay) >= Len(needle) /\ SubSeq(hay, 1, Len(needle)) = needle

(* `needle in hay` on text *)
Contains(needle, hay) ==
  \E i \in 1..(Len(hay) - Len(needle) + 1) :
    SubSeq(hay, i, i + Len(needle) - 1) = needle

(* eval(condition, {"stdout": stdout, "stderr": stderr}): the exception it
   raises ("none" when it returns) and the value it returns.  The globals
   hold stdout and stderr only, so the name `result` is undefined. *)
EvalExpr(condition, out, err) ==
  IF condition = ExitCondition
    THEN [exc |-> "SystemExit", val |-> PyUnbound]
  ELSE IF condition = DefaultCondition
    THEN [exc |-> "NameError", val |-> PyUnbound]
  ELSE IF condition = MalformedCondition
    THEN [exc |-> "SyntaxError", val |-> PyUnbound]
  ELSE IF condition = ContainsCondition
    THEN [exc |-> "none", val |-> PyBool(Contains(<<"h", "i">>, out))]
  ELSE IF condition = IndexCondition
    THEN IF Len(out) = 0
           THEN [exc |-> "IndexError", val |-> PyUnbound]
           ELSE [exc |-> "none", val |-> PyBool(out[1] = "h")]
  ELSE [exc |-> "none", val |-> PyStr(out)]

(* an error of eval taken for success *)
evaluate_condition_ErrorIsTrue(out, err, condition) ==
  LET e == EvalExpr(condition, out, err)
  IN IF e.exc = "none" THEN e.val ELSE PyBool(TRUE)

(* evaluate_condition: the value of eval, False when eval raises *)
evaluate_condition(out, err, condition) ==
  LET e == EvalExpr(condition, out, err)
  IN IF e.exc = "none" THEN e.val ELSE PyBool(FALSE)

(* ---------------------------------------------------------------------- *)
(* Backoff                                                                 *)
(* ---------------------------------------------------------------------- *)
RECURSIVE Pow(_, _)
Pow(b, n) == IF n = 0 THEN 1 ELSE b * Pow(b, n - 1)

Min(a, b) == IF a <= b THEN a ELSE b

(* the cap left out *)
BaseSleepTime_NoCap(d, k, m) == d * Pow(2, k - 1)

(* line 53: min(delay * (2 ** (attempt - 1)), max_delay) *)
BaseSleepTime(d, k, m) == Min(d * Pow(2, k - 1), m)

(* line 54-55: random.uniform(0, jitter) is added only when jitter > 0 *)
JitterDraws(j) == IF j > 0 THEN 0..(j - 1) ELSE {0}

(* ---------------------------------------------------------------------- *)
(* State                                                                   *)
(* ---------------------------------------------------------------------- *)
VARIABLES
  command, condition, attempts, delay, backoff, max_delay, jitter, timeout,
  pc, attempt, result, stdout, stderr, success, sleep_time,
  child, invocations, sleeps, outcomes, printed, returned, exitStatus

policy == <<command, condition, attempts, delay, backoff, max_delay, jitter, timeout>>
locals == <<attempt, result, stdout, stderr, success, sleep_time>>
history == <<invocations, sleeps, outcomes>>
vars == <<policy, pc, locals, child, history, printed, returned, exitStatus>>

(* `result`, `stdout` and `stderr` are bound together at lines 26-33; the
   field `attempt` notes the loop index whose child produced them *)
NoResult == [bound |-> FALSE, returncode |-> 0, attempt |-> 0]

Line(msg, k) == [msg |-> msg, attempt |-> k]

(* the loop bound taken one too far: range(1, attempts + 2) *)
LoopHasNext_OffByOne == attempt <= attempts

(* range(1, attempts + 1) has a next element after `attempt` *)
LoopHasNext == attempt < attempts

(* the state when main() starts, for conditions and delays drawn from the
   given sets *)
InitWith(conditions, delays) ==
  /\ command \in CommandsIn
  /\ condition \in conditions
  /\ attempts \in AttemptsIn
  /\ delay \in delays
  /\ backoff \in BackoffsIn
  /\ max_delay \in MaxDelaysIn
  /\ jitter \in JittersIn
  /\ timeout \in TimeoutsIn
  /\ pc = "main"
  /\ attempt = 0
  /\ result = NoResult
  /\ stdout = <<>>
  /\ stderr = <<>>
  /\ success = PyUnbound
  /\ sleep_time = 0
  /\ child = FALSE
  /\ invocations = 0
  /\ sleeps = <<>>
  /\ outcomes = <<>>
  /\ printed = <<>>
  /\ returned = "none"
  /\ exitStatus = -1

Init == InitWith(ConditionsIn, DelaysIn)

(* ---------------------------------------------------------------------- *)
(* main(), lines 75-79: no command                                         *)
(* ---------------------------------------------------------------------- *)
(* the error is printed but sys.exit(1) is missing *)
NoCommand_NoExit ==
  /\ pc = "main"
  /\ command = <<>>
  /\ printed' = Append(printed, Line("Error: No command specified.", 0))
  /\ pc' = "loop"
  /\ UNCHANGED <<policy, locals, child, history, returned, exitStatus>>

NoCommand ==
  /\ pc = "main"
  /\ command = <<>>
  /\ printed' = Append(printed, Line("Error: No command specified.", 0))
  /\ exitStatus' = 1
  /\ pc' = "exit"
  /\ UNCHANGED <<policy, locals, child, history, returned>>

(* main(), line 81: call execute_command *)
CallExecute ==
  /\ pc = "main"
  /\ command # <<>>
  /\ pc' = "loop"
  /\ UNCHANGED <<policy, locals, child, history, printed, returned, exitStatus>>

(* the loop index advanced by two *)
LoopNext_SkipsOne ==
  /\ pc = "loop"
  /\ LoopHasNext
  /\ attempt' = attempt + 2
  /\ pc' = "launch"
  /\ UNCHANGED <<policy, result, stdout, stderr, success, sleep_time, child,
                 history, printed, returned, exitStatus>>

(* line 23: the for loop takes its next index *)
LoopNext ==
  /\ pc = "loop"
  /\ LoopHasNext
  /\ attempt' = attempt + 1
  /\ pc' = "launch"
  /\ UNCHANGED <<policy, result, stdout, stderr, success, sleep_time, child,
                 history, printed, returned, exitStatus>>

(* lines 59-60: the loop is over *)
LoopExhausted ==
  /\ pc = "loop"
  /\ ~LoopHasNext
  /\ printed' = Append(printed, Line("Maximum attempts reached. Exiting.", attempt))
  /\ returned' = "False"
  /\ pc' = "returned"
  /\ UNCHANGED <<policy, locals, child, history, exitStatus>>

(* lines 26-32: subprocess.run spawns the child *)
Launch ==
  /\ pc = "launch"
  /\ invocations' = invocations + 1
  /\ child' = TRUE
  /\ pc' = "wait"
  /\ UNCHANGED <<policy, locals, sleeps, outcomes, printed, returned, exitStatus>>

(* the spawn error is not caught: traceback, status 1 *)
LaunchFails_Uncaught ==
  /\ pc = "launch"
  /\ invocations' = invocations + 1
  /\ outcomes' = Append(outcomes, "launch_error")
  /\ exitStatus' = 1
  /\ pc' = "exit"
  /\ UNCHANGED <<policy, locals, child, sleeps, printed, returned>>

(* lines 26-32, 49-50: the spawn raises OSError (not found, permission) *)
LaunchFails ==
  /\ pc = "launch"
  /\ invocations' = invocations + 1
  /\ outcomes' = Append(outcomes, "launch_error")
  /\ printed' = Append(printed, Line("Error executing command", attempt))
  /\ pc' = "backoff"
  /\ UNCHANGED <<policy, locals, child, sleeps, returned, exitStatus>>

(* lines 26-33: the child ends within the timeout; its output is bound *)
Complete ==
  /\ pc = "wait"
  /\ \E rc \in ReturnCodes, o \in Stdouts, e \in Stderrs :
       /\ result' = [bound |-> TRUE, returncode |-> rc, attempt |-> attempt]
       /\ stdout' = o
       /\ stderr' = e
  /\ child' = FALSE
  /\ pc' = "eval"
  /\ UNCHANGED <<policy, attempt, success, sleep_time, history, printed,
                 returned, exitStatus>>

(* after a timeout the condition is evaluated on the output still bound *)
TimeoutExpired_EvaluatesStale ==
  /\ pc = "wait"
  /\ child' = FALSE
  /\ pc' = "eval"
  /\ UNCHANGED <<policy, locals, history, printed, returned, exitStatus>>

(* the timed-out child is left running *)
TimeoutExpired_NoKill ==
  /\ pc = "wait"
  /\ outcomes' = Append(outcomes, "timeout")
  /\ printed' = Append(printed, Line("Command timed out", attempt))
  /\ pc' = "backoff"
  /\ UNCHANGED <<policy, locals, child, invocations, sleeps, returned, exitStatus>>

(* TimeoutExpired is not caught: traceback, status 1 *)
TimeoutExpired_Uncaught ==
  /\ pc = "wait"
  /\ child' = FALSE
  /\ outcomes' = Append(outcomes, "timeout")
  /\ exitStatus' = 1
  /\ pc' = "exit"
  /\ UNCHANGED <<policy, locals, invocations, sleeps, printed, returned>>

(* lines 31, 47-48: the timeout expires; run() kills the child and raises *)
TimeoutExpired ==
  /\ pc = "wait"
  /\ child' = FALSE
  /\ outcomes' = Append(outcomes, "timeout")
  /\ printed' = Append(printed, Line("Command timed out", attempt))
  /\ pc' = "backoff"
  /\ UNCHANGED <<policy, locals, invocations, sleeps, returned, exitStatus>>

(* line 34: success = evaluate_condition(stdout, stderr, condition) *)
Evaluate ==
  /\ pc = "eval"
  /\ EvalExpr(condition, stdout, stderr).exc # "SystemExit"
  /\ success' = evaluate_condition(stdout, stderr, condition)
  /\ printed' = IF EvalExpr(condition, stdout, stderr).exc # "none"
                  THEN Append(printed, Line("Error evaluating condition", attempt))
                  ELSE printed
  /\ pc' = "report"
  /\ UNCHANGED <<policy, attempt, result, stdout, stderr, sleep_time, child,
                 history, returned, exitStatus>>

(* lines 13-14, 49: the condition raises SystemExit(0), which is not an
   Exception: no handler catches it and the interpreter exits with 0 *)
EvaluateExits ==
  /\ pc = "eval"
  /\ EvalExpr(condition, stdout, stderr).exc = "SystemExit"
  /\ exitStatus' = 0
  /\ pc' = "exit"
  /\ UNCHANGED <<policy, locals, child, history, printed, returned>>

(* the outcome of an attempt whose condition was evaluated *)
EvalOutcome ==
  IF Truthy(success) THEN "met"
  ELSE IF EvalExpr(condition, stdout, stderr).exc # "none" THEN "eval_error"
  ELSE "not_met"

(* `return True` is missing: a met condition is printed and the loop goes on *)
Report_NoReturn ==
  /\ pc = "report"
  /\ outcomes' = Append(outcomes, EvalOutcome)
  /\ printed' = printed \o
       <<Line("Attempt", attempt),
         Line(IF Truthy(success) THEN "Condition met. Exiting."
                                 ELSE "Condition not met. Retrying...", attempt)>>
  /\ pc' = "backoff"
  /\ UNCHANGED <<policy, locals, child, invocations, sleeps, returned, exitStatus>>

(* lines 36-46: the report, then stop on success or go on to the backoff *)
Report ==
  /\ pc = "report"
  /\ outcomes' = Append(outcomes, EvalOutcome)
  /\ IF Truthy(success)
       THEN /\ printed' = printed \o <<Line("Attempt", attempt),
                                       Line("Condition met. Exiting.", attempt)>>
            /\ returned' = "True"
            /\ pc' = "returned"
       ELSE /\ printed' = printed \o <<Line("Attempt", attempt),
                                       Line("Condition not met. Retrying...", attempt)>>
            /\ returned' = returned
            /\ pc' = "backoff"
  /\ UNCHANGED <<policy, locals, child, invocations, sleeps, exitStatus>>

(* the backoff kept by doubling the delay parameter in place *)
Backoff_MutatesDelay ==
  /\ pc = "backoff"
  /\ \E r \in JitterDraws(jitter) :
       sleep_time' = Min(delay, max_delay) + r
  /\ delay' = delay * 2
  /\ sleeps' = Append(sleeps, sleep_time')
  /\ printed' = Append(printed, Line("Sleeping", attempt))
  /\ pc' = "sleeping"
  /\ UNCHANGED <<command, condition, attempts, backoff, max_delay, jitter,
                 timeout, attempt, result, stdout, stderr, success, child,
                 invocations, outcomes, returned, exitStatus>>

(* lines 53-57: the delay is computed and time.sleep starts *)
Backoff ==
  /\ pc = "backoff"
  /\ \E r \in JitterDraws(jitter) :
       sleep_time' = BaseSleepTime(delay, attempt, max_delay) + r
  /\ sleeps' = Append(sleeps, sleep_time')
  /\ printed' = Append(printed, Line("Sleeping", attempt))
  /\ IF sleep_time' >= 0
       THEN pc' = "sleeping" /\ exitStatus' = exitStatus
       ELSE (* time.sleep raises ValueError outside the try: traceback *)
            pc' = "exit" /\ exitStatus' = 1
  /\ UNCHANGED <<policy, attempt, result, stdout, stderr, success, child,
                 invocations, outcomes, returned>>

(* line 57: time.sleep returns *)
Wake ==
  /\ pc = "sleeping"
  /\ pc' = "loop"
  /\ UNCHANGED <<policy, locals, child, history, printed, returned, exitStatus>>

(* the two statuses swapped *)
ExitCode_Swapped(ok) == IF ok THEN 1 ELSE 0

(* the status main() passes to sys.exit *)
ExitCode(ok) == IF ok THEN 0 ELSE 1

(* line 92: sys.exit(0 if success else 1) *)
Exit ==
  /\ pc = "returned"
  /\ exitStatus' = ExitCode(returned = "True")
  /\ pc' = "exit"
  /\ UNCHANGED <<policy, locals, child, history, printed, returned>>

(* the interrupt unwinds without killing the child *)
Interrupt_ChildSurvives ==
  /\ pc \in {"wait", "sleeping"}
  /\ exitStatus' = 130
  /\ pc' = "aborted"
  /\ UNCHANGED <<policy, locals, child, history, printed, returned>>

(* KeyboardInterrupt while run() waits or time.sleep sleeps: it is not an
   Exception, so neither handler catches it; run() kills the child *)
Interrupt ==
  /\ pc \in {"wait", "sleeping"}
  /\ child' = FALSE
  /\ exitStatus' = 130
  /\ pc' = "aborted"
  /\ UNCHANGED <<policy, locals, history, printed, returned>>

Next ==
  \/ NoCommand
  \/ CallExecute
  \/ LoopNext
  \/ LoopExhausted
  \/ Launch
  \/ LaunchFails
  \/ Complete
  \/ TimeoutExpired
  \/ Evaluate
  \/ Report
  \/ Backoff
  \/ Wake
  \/ Exit
  \/ Interrupt

Spec == Init /\ [][Next]_vars

(* every step of the program itself: each statement runs to its end, every
   invocation returns (by completion, timeout or launch failure) and every
   sleep ends; only the interrupt comes from outside *)
Progress ==
  \/ NoCommand
  \/ CallExecute
  \/ LoopNext
  \/ LoopExhausted
  \/ Launch
  \/ LaunchFails
  \/ Complete
  \/ TimeoutExpired
  \/ Evaluate
  \/ Report
  \/ Backoff
  \/ Wake
  \/ Exit

SpecLive == Init /\ [][Next]_vars /\ WF_vars(Progress)

(* runs whose condition may also be one that leaves the interpreter *)
InitEval == InitWith(ConditionsIn \cup {ExitCondition}, DelaysIn)

NextEval == Next \/ EvaluateExits

SpecEval == InitEval /\ [][NextEval]_vars

(* runs whose delay may also be negative *)
InitSigned == InitWith(ConditionsIn, SignedDelaysIn)

SpecSigned == InitSigned /\ [][Next]_vars

TypeOK ==
  /\ pc \in {"main", "loop", "launch", "wait", "eval", "report", "backoff",
             "sleeping", "returned", "exit", "aborted"}
  /\ attempt \in 0..attempts
  /\ returned \in {"none", "True", "False"}
  /\ exitStatus \in {-1, 0, 1, 130}

(* ---------------------------------------------------------------------- *)
(* Properties                                                              *)
(* ---------------------------------------------------------------------- *)
Finished == pc \in {"returned", "exit"}

Succeeded == \E k \in 1..Len(outcomes) : outcomes[k] = "met"

ExhaustedAttempts == returned = "False"

(* C1: with attempts >= 1 the command is invoked at most `attempts` times;
   once attempt k has met the condition exactly k invocations were made and
   no earlier attempt met it; a run that ends without any attempt meeting
   the condition made exactly `attempts` invocations. *)
C1_InvocationCount ==
  (attempts >= 1 /\ command # <<>>) =>
    /\ invocations <= attempts
    /\ \A k \in 1..Len(outcomes) :
         outcomes[k] = "met" => k = Len(outcomes) /\ invocations = k
    /\ (Finished /\ returned = "True") => Succeeded
    /\ (Finished /\ ~Succeeded) => invocations = attempts /\ returned = "False"

C1_Witness ==
  /\ pc = "exit"
  /\ attempts = 3
  /\ outcomes = <<"not_met", "met">>
  /\ invocations = 2

(* C2: no sleep is started after the last attempt the policy allows, and a
   finished run with n attempts has slept exactly n - 1 times. *)
C2_NoTrailingSleep ==
  /\ pc = "sleeping" => attempt < attempts
  /\ (Finished /\ invocations >= 1) => Len(sleeps) = invocations - 1

(* C3: the k-th sleep equals min(delay * backoff^(k-1), max_delay) plus a
   jitter value in [0, jitter). *)
C3_DelayUsesBackoff ==
  \A k \in 1..Len(sleeps) :
    \E r \in JitterDraws(jitter) :
      sleeps[k] = Min(delay * Pow(backoff, k - 1), max_delay) + r

(* C4: under the default condition an attempt's predicate is true exactly
   when the child's return code is 0. *)
C4_DefaultIsExitZero ==
  (pc = "report" /\ condition = DefaultCondition) =>
    (Truthy(success) <=> result.returncode = 0)

(* C5: with a condition that does not compile, no command is invoked and no
   sleep occurs. *)
C5_MalformedAbortsFirst ==
  condition = MalformedCondition => invocations = 0 /\ sleeps = <<>>

(* an attempt that ended as `kind` is a failed attempt like any other: the
   run goes on (no exit before execute_command returns), the attempt takes
   one of the `attempts` indices, it is never a success, and when indices
   remain the next attempt is made, after the backoff sleep of this one *)
FailedAttemptRetried(kind) ==
  \A k \in 1..Len(outcomes) :
    outcomes[k] = kind =>
      /\ k <= attempts
      /\ invocations >= k
      /\ invocations <= attempts
      /\ attempt \in k..(Len(outcomes) + 1)
      /\ Len(outcomes) = k => returned # "True"
      /\ pc = "exit" => returned # "none"
      /\ (Finished /\ k < attempts) => Len(outcomes) > k
      /\ Len(outcomes) > k =>
           /\ Len(sleeps) >= k
           /\ sleeps[k] \in {BaseSleepTime(delay, k, max_delay) + r :
                               r \in JitterDraws(jitter)}

(* C6: a timed-out attempt is a failed attempt: the run does not end on it,
   it counts toward `attempts`, and the next attempt follows its backoff
   sleep when attempts remain. *)
C6_TimeoutRetried == FailedAttemptRetried("timeout")

C6_Witness ==
  /\ outcomes = <<"timeout", "timeout">>
  /\ attempts = 3
  /\ pc = "wait"
  /\ attempt = 3
  /\ Len(sleeps) = 2

(* C7: a launch failure is a failed attempt: the run does not end on it, it
   counts toward `attempts`, and the next attempt follows its backoff sleep
   when attempts remain. *)
C7_LaunchFailureRetried == FailedAttemptRetried("launch_error")

C7_Witness ==
  /\ outcomes = <<"launch_error", "launch_error", "launch_error">>
  /\ attempts = 3
  /\ pc = "exit"
  /\ returned = "False"

(* C8: when eval raises on an attempt's output the predicate of that
   attempt is False, the run goes on like after any failed attempt, and the
   value reported for each attempt is the one computed from that attempt's
   own output. *)
C8_EvalErrorNotMet ==
  /\ pc = "report" =>
       /\ EvalExpr(condition, stdout, stderr).exc # "none" =>
            ~Truthy(success) /\ exitStatus = -1
       /\ EvalExpr(condition, stdout, stderr).exc = "none" =>
            success = EvalExpr(condition, stdout, stderr).val
  /\ FailedAttemptRetried("eval_error")

C8_Witness ==
  /\ condition = IndexCondition
  /\ outcomes = <<"eval_error", "met">>
  /\ returned = "True"

(* C9: the exit status is 0 exactly when some attempt met the condition,
   and it is 1 after exhaustion and when no command was given. *)
C9_ExitStatus ==
  /\ pc \in {"exit", "aborted"} => (exitStatus = 0 <=> Succeeded)
  /\ (pc = "exit" /\ ExhaustedAttempts) => exitStatus = 1
  /\ (pc = "exit" /\ command = <<>>) => exitStatus = 1

C9_Witness ==
  /\ pc = "exit"
  /\ exitStatus = 0
  /\ outcomes = <<"timeout", "met">>

(* C10: with an empty command nothing is invoked and nothing sleeps; the
   run goes from main straight to its exit, with the error printed and
   status 1. *)
C10_EmptyCommandFatal ==
  command = <<>> =>
    /\ invocations = 0
    /\ sleeps = <<>>
    /\ pc \in {"main", "exit"}
    /\ pc = "exit" =>
         /\ exitStatus = 1
         /\ printed = <<Line("Error: No command specified.", 0)>>

C10_Witness ==
  /\ command = <<>>
  /\ pc = "exit"
  /\ exitStatus = 1

(* the two final notices of execute_command *)
FinalNotices == {"Condition met. Exiting.", "Maximum attempts reached. Exiting."}

(* C11: an interrupt while waiting on the child or sleeping aborts the run:
   no child is left running, execute_command has not returned, neither
   final notice was printed, the status is not one of the two outcomes',
   and after the abort no invocation, sleep or output follows. *)
C11_InterruptAborts ==
  /\ [](pc = "aborted" =>
          /\ ~child
          /\ returned = "none"
          /\ exitStatus = 130
          /\ \A i \in 1..Len(printed) : printed[i].msg \notin FinalNotices
          /\ invocations = attempt
          /\ Len(sleeps) \in {attempt - 1, attempt})
  /\ [][pc = "aborted" =>
          /\ pc' = "aborted"
          /\ invocations' = invocations
          /\ sleeps' = sleeps
          /\ printed' = printed]_vars

C11_Witness ==
  /\ pc = "aborted"
  /\ attempt = 2
  /\ invocations = 2
  /\ Len(sleeps) = 1
  /\ outcomes = <<"not_met">>

(* C12: evaluating the condition changes nothing but the predicate value
   (and the evaluator's own error message): from the evaluation point the
   run always goes on to the report with every other variable unchanged. *)
C12_EvalHasNoEffect ==
  [][pc = "eval" =>
       /\ pc' = "report"
       /\ UNCHANGED <<policy, attempt, result, stdout, stderr, sleep_time,
                      child, history, returned, exitStatus>>]_vars

(* the text holds "hi" somewhere *)
HasHi(s) == \E i \in 1..(Len(s) - 1) : s[i] = "h" /\ s[i + 1] = "i"

(* C13: under the condition 'hi' in stdout the predicate of an attempt is
   true exactly when that attempt's stdout holds "hi", whatever the return
   code and stderr; the run then returns success on that attempt. *)
C13_StdoutOnly ==
  condition = ContainsCondition =>
    /\ pc = "report" => (Truthy(success) <=> HasHi(stdout))
    /\ (pc = "returned" /\ returned = "True") =>
         /\ HasHi(stdout)
         /\ Len(outcomes) = attempt
         /\ outcomes[attempt] = "met"
         /\ printed[Len(printed)] = Line("Condition met. Exiting.", attempt)
    /\ (pc = "backoff" /\ outcomes[Len(outcomes)] = "not_met") => ~HasHi(stdout)

C13_Witness ==
  /\ condition = ContainsCondition
  /\ pc = "exit"
  /\ exitStatus = 0
  /\ result.returncode = 1
  /\ stdout = <<"o", "h", "i">>
  /\ stderr = <<"e">>
  /\ outcomes = <<"met">>

(* C14: the attempt index is the number of invocations made so far (one
   more while the next one is being launched), so indices start at 1 and
   grow by one per attempt whatever the outcomes; the recorded outcomes
   and the printed lines never run ahead of the index. *)
C14_AttemptNumbering ==
  command # <<>> =>
    /\ pc = "launch" => attempt = invocations + 1
    /\ pc # "launch" => attempt = invocations
    /\ Len(outcomes) \in {attempt - 1, attempt}
    /\ Len(printed) > 0 =>
         /\ printed[1].attempt >= 0
         /\ printed[Len(printed)].attempt <= attempt
    /\ \A i \in 1..(Len(printed) - 1) :
         printed[i].attempt <= printed[i + 1].attempt

C14_Witness ==
  /\ outcomes = <<"timeout", "launch_error", "eval_error">>
  /\ attempt = 3
  /\ pc = "backoff"

(* C15: every attempt made so far, whatever its outcome, has its report
   line (attempt index, total, command, exit code, output) printed. *)
C15_EveryAttemptReported ==
  \A k \in 1..Len(outcomes) :
    \E i \in 1..Len(printed) : printed[i] = Line("Attempt", k)

(* C16: the loop is entered only with attempts >= 1, and exhaustion is
   reported only after at least one invocation. *)
C16_AtLeastOneAttempt ==
  /\ pc = "loop" => attempts >= 1
  /\ returned = "False" => invocations >= 1

(* C17: every delay passed to sleep is non-negative and lies in
   [capped, capped + jitter) when jitter > 0, and equals capped when
   jitter = 0, where capped = min(delay * backoff^(k-1), max_delay). *)
C17_DelayNonNegative ==
  \A k \in 1..Len(sleeps) :
    LET capped == Min(delay * Pow(backoff, k - 1), max_delay)
    IN /\ sleeps[k] >= 0
       /\ IF jitter > 0
            THEN capped <= sleeps[k] /\ sleeps[k] < capped + jitter
            ELSE sleeps[k] = capped

(* C18: when max_delay < delay every sleep is max_delay plus its jitter
   draw, from the first sleep on. *)
C18_CapBelowInitialDelay ==
  max_delay < delay =>
    \A k \in 1..Len(sleeps) :
      sleeps[k] \in {max_delay + r : r \in JitterDraws(jitter)}

C18_Witness ==
  /\ delay = 3
  /\ max_delay = 2
  /\ jitter = 0
  /\ sleeps = <<2, 2, 2>>

(* C19: a child runs only while the orchestrator waits on it; when an
   attempt is launched no child is running and every earlier attempt has
   its outcome and its finished sleep; nothing runs during a sleep. *)
C19_OneInFlight ==
  /\ child => pc = "wait"
  /\ pc = "wait" => invocations = attempt
  /\ pc = "launch" =>
       /\ ~child
       /\ Len(outcomes) = attempt - 1
       /\ Len(sleeps) = attempt - 1
  /\ pc = "sleeping" => ~child /\ Len(outcomes) = attempt

C19_Witness ==
  /\ pc = "launch"
  /\ attempt = 3
  /\ outcomes = <<"timeout", "not_met">>
  /\ ~child

(* C20: every cycle's outcome comes from an evaluation of the condition on
   that attempt's result: each recorded outcome is a predicate outcome. *)
C20_EvaluatedEveryCycle ==
  \A k \in 1..Len(outcomes) :
    outcomes[k] \in {"met", "not_met", "eval_error"}

(* C21: the condition is evaluated and reported only with the output that
   the child of the current attempt produced, and an attempt that timed
   out or failed to launch prints its own message and nothing of an
   earlier attempt. *)
C21_OwnOutputOnly ==
  /\ pc \in {"eval", "report"} => result.bound /\ result.attempt = attempt
  /\ pc = "report" => success = evaluate_condition(stdout, stderr, condition)
  /\ result.bound => result.attempt \in 1..attempt
  /\ (pc = "backoff" /\ outcomes[attempt] = "timeout") =>
       printed[Len(printed)] = Line("Command timed out", attempt)
  /\ (pc = "backoff" /\ outcomes[attempt] = "launch_error") =>
       printed[Len(printed)] = Line("Error executing command", attempt)

C21_Witness ==
  /\ pc = "backoff"
  /\ attempt = 3
  /\ outcomes = <<"not_met", "not_met", "timeout">>
  /\ result.attempt = 2

(* C22: no step changes the command or the policy; the step that passes
   from one attempt to the next changes the attempt counter by one and
   nothing else; and the delay slept after an attempt is computed from the
   policy and the counter alone. *)
C22_PolicyFrame ==
  /\ [](pc = "sleeping" =>
          sleep_time \in {BaseSleepTime(delay, attempt, max_delay) + r :
                            r \in JitterDraws(jitter)})
  /\ [][/\ UNCHANGED policy
        /\ attempt' # attempt =>
             /\ attempt' = attempt + 1
             /\ UNCHANGED <<result, stdout, stderr, success, sleep_time, child,
                            history, printed, returned, exitStatus>>]_vars

C22_Witness ==
  /\ pc = "launch"
  /\ attempt = 3
  /\ outcomes = <<"launch_error", "eval_error">>
  /\ sleeps = <<3, 5>>

(* C23: a run with a command, unless it is interrupted, eventually returns
   from execute_command; it returns True exactly when the current attempt
   met the condition and False only when no attempt did; and once it has
   returned, the outcome stays and no invocation or sleep follows. *)
C23_Terminates ==
  /\ <>(command = <<>> \/ pc = "aborted" \/ returned # "none")
  /\ [](returned = "True" => Len(outcomes) = attempt /\ outcomes[attempt] = "met")
  /\ [](returned = "False" => ~Succeeded /\ attempt = attempts)
  /\ [][returned # "none" =>
          /\ returned' = returned
          /\ invocations' = invocations
          /\ sleeps' = sleeps]_vars

C23_Witness ==
  /\ pc = "exit"
  /\ returned = "False"
  /\ attempts = 3
  /\ outcomes = <<"timeout", "eval_error", "not_met">>
  /\ exitStatus = 1

====
